---- MODULE Spec2Model ----
(***************************************************************************)
(* Model of src/lib/analysis/ai/domain.rs: the abstract-domain framework   *)
(* (Value / Memory contracts, Expression constructors, State and           *)
(* State::join).                                                           *)
(*                                                                         *)
(* Three specifications share the module's variables:                      *)
(*   SpecJoin   one call of State::join, executed one loop iteration at a  *)
(*              time, the HashMap iteration order left open;               *)
(*   SpecStore  State::new followed by set_variable / remove_variable /    *)
(*              variable calls;                                            *)
(*   SpecExpr   calls of the Expression constructors.                      *)
(***************************************************************************)
EXTENDS Integers, FiniteSets, Sequences, TLC

VARIABLES
    self,       \* the receiver State (moved into join, or mutated in place)
    other,      \* join's `other: &Self`
    self0,      \* history: the receiver as it was when join was called
    todo,       \* join: keys of other.variables the iterator has not yielded
    pc,         \* join: "loop" | "done"
    result,     \* join: the returned Result<Self>
    memJoined,  \* history: Memory::join has been invoked by this join
    call,       \* history: the last call made (operation and arguments)
    ret,        \* the value the last call returned
    last,       \* history: per key, the most recent set/remove touching it
    prev,       \* history: the State before the last call
    expr        \* the Expression the last constructor call returned

vars == <<self, other, self0, todo, pc, result, memJoined, call, ret, last, prev, expr>>

----------------------------------------------------------------------------
(* Bounds *)

NumKeys == 2
MaxDepth == 2

(* il::Scalar keys *)
Keys == 1..NumKeys

----------------------------------------------------------------------------
(* Result / Option *)

Ok(v) == <<"Ok", v>>
Err == <<"Err">>
IsOk(r) == r[1] = "Ok"
Unwrap(r) == r[2]

Some(v) == <<v>>
None == <<>>

----------------------------------------------------------------------------
(* A Value implementation: a set of constants tagged with a bit-width.     *)
(* join is set union and fails on mismatched bit-widths; empty(bits) is    *)
(* the empty set of that width.                                            *)

Widths == {8, 16}
Consts == {0, 1}
AllValues == [bits : Widths, set : SUBSET Consts]
(* The values the variables are drawn from: every 8-bit set, and the       *)
(* 16-bit bottom (which makes bit-widths mismatch).                        *)
Values == {v \in AllValues : v.bits = 8 \/ v.set = {}}

ValueJoin(a, b) ==
    IF a.bits # b.bits THEN Err
    ELSE Ok([bits |-> a.bits, set |-> a.set \cup b.set])

ValueEmpty(bits) == [bits |-> bits, set |-> {}]

(* A Memory implementation: a byte order fixed at construction and a set   *)
(* of written cells. join is union of the cells and fails when the byte    *)
(* orders differ.                                                          *)

Endians == {"Big", "Little"}
Cells == {0}
Memories == [endian : Endians, cells : SUBSET Cells]

MemoryNew(endian) == [endian |-> endian, cells |-> {}]

MemoryJoin(m, o) ==
    IF m.endian # o.endian THEN Err
    ELSE Ok([endian |-> m.endian, cells |-> m.cells \cup o.cells])

----------------------------------------------------------------------------
(* HashMap<il::Scalar, V> *)

Maps == UNION {[K -> Values] : K \in SUBSET Keys}
EmptyMap == [k \in {} |-> ValueEmpty(8)]

Get(m, k) == IF k \in DOMAIN m THEN Some(m[k]) ELSE None
Insert(m, k, v) == [x \in (DOMAIN m) \cup {k} |-> IF x = k THEN v ELSE m[x]]
Remove(m, k) == [x \in (DOMAIN m) \ {k} |-> m[x]]

(* State<M, V> *)
States == [variables : Maps, memory : Memories]

StateNew(memory) == [variables |-> EmptyMap, memory |-> memory]
variable(s, key) == Get(s.variables, key)
\* entry(key).or_insert(value): an existing value is not replaced
set_variable_IfAbsent(s, key, value) ==
    IF key \in DOMAIN s.variables THEN s
    ELSE [s EXCEPT !.variables = Insert(s.variables, key, value)]
set_variable(s, key, value) == [s EXCEPT !.variables = Insert(s.variables, key, value)]
remove_variable(s, key) == [s EXCEPT !.variables = Remove(s.variables, key)]
remove_variable_ret == "()"

----------------------------------------------------------------------------
(* State::join *)

(* Variants of the loop body, each with one slip. *)

\* a key found only in `other` is entered as the bottom value of its width
JoinVisit_NoneAsEmpty(variables, k, ov) ==
    LET g == Get(variables, k)
        r == IF g # None THEN ValueJoin(g[1], ov) ELSE Ok(ValueEmpty(ov.bits))
    IN  IF IsOk(r) THEN Ok(Insert(variables, k, Unwrap(r))) ELSE Err

\* a key found only in `other` is not entered at all
JoinVisit_NoneSkipped(variables, k, ov) ==
    LET g == Get(variables, k)
    IN  IF g = None THEN Ok(variables)
        ELSE LET r == ValueJoin(g[1], ov)
             IN  IF IsOk(r) THEN Ok(Insert(variables, k, Unwrap(r))) ELSE Err

\* a shared key is overwritten with other's value instead of the join
JoinVisit_Overwrite(variables, k, ov) ==
    Ok(Insert(variables, k, ov))

\* a shared key keeps self's value instead of the join
JoinVisit_KeepSelf(variables, k, ov) ==
    LET g == Get(variables, k)
    IN  IF g # None THEN Ok(variables) ELSE Ok(Insert(variables, k, ov))

\* a failed Value::join is replaced by other's value (unwrap_or) instead of `?`
JoinVisit_Coerce(variables, k, ov) ==
    LET g == Get(variables, k)
        r == IF g # None THEN ValueJoin(g[1], ov) ELSE Ok(ov)
    IN  Ok(Insert(variables, k, IF IsOk(r) THEN Unwrap(r) ELSE ov))

\* the lookup uses the smallest key already in self instead of the visited key
JoinVisit_WrongLookup(variables, k, ov) ==
    LET g == IF DOMAIN variables = {} THEN None
             ELSE Some(variables[CHOOSE x \in DOMAIN variables :
                                   \A y \in DOMAIN variables : x <= y])
        r == IF g # None THEN ValueJoin(g[1], ov) ELSE Ok(ov)
    IN  IF IsOk(r) THEN Ok(Insert(variables, k, Unwrap(r))) ELSE Err

\* a shared key is removed instead of re-inserted
JoinVisit_RemoveShared(variables, k, ov) ==
    LET g == Get(variables, k)
        r == IF g # None THEN ValueJoin(g[1], ov) ELSE Ok(ov)
    IN  IF ~IsOk(r) THEN Err
        ELSE IF g # None THEN Ok(Remove(variables, k))
        ELSE Ok(Insert(variables, k, Unwrap(r)))

(* The body of `for variable in &other.variables`, for the entry (k, ov):  *)
(* Err when Value::join fails (the `?`), else the map after the insert.    *)
JoinVisit(variables, k, ov) ==
    LET g == Get(variables, k)
        r == IF g # None THEN ValueJoin(g[1], ov) ELSE Ok(ov)
    IN  IF IsOk(r) THEN Ok(Insert(variables, k, Unwrap(r))) ELSE Err

(* `self.memory = Memory::join(self.memory, &other.memory)?; Ok(self)` *)
JoinMemory(s, o) ==
    LET m == MemoryJoin(s.memory, o.memory)
    IN  IF IsOk(m) THEN Ok([s EXCEPT !.memory = Unwrap(m)]) ELSE Err

(* The loop run over other's entries in the order `ord`. *)
RECURSIVE JoinFold(_, _, _)
JoinFold(variables, ovars, ord) ==
    IF ord = <<>> THEN Ok(variables)
    ELSE LET r == JoinVisit(variables, Head(ord), ovars[Head(ord)])
         IN  IF IsOk(r) THEN JoinFold(Unwrap(r), ovars, Tail(ord)) ELSE Err

(* s.join(&o) when the HashMap iterator yields other's keys in order `ord` *)
StateJoinIn(s, o, ord) ==
    LET r == JoinFold(s.variables, o.variables, ord)
    IN  IF IsOk(r) THEN JoinMemory([s EXCEPT !.variables = Unwrap(r)], o) ELSE Err

(* Every order in which a HashMap with key set S can be iterated *)
Orders(S) ==
    {f \in [1..Cardinality(S) -> S] : \A i, j \in DOMAIN f : f[i] = f[j] => i = j}

(* s.join(&o) for one iteration order (ascending keys) *)
AscendingOrder(S) ==
    CHOOSE f \in Orders(S) : \A i, j \in DOMAIN f : i < j => f[i] < f[j]
StateJoin(s, o) == StateJoinIn(s, o, AscendingOrder(DOMAIN o.variables))

NoLast == [k \in Keys |-> None]
NoExpr == <<>>

InitJoin ==
    /\ self \in States
    /\ other \in States
    /\ self0 = self
    /\ todo = DOMAIN other.variables
    /\ pc = "loop"
    /\ result = None
    /\ memJoined = FALSE
    /\ call = [op |-> "join"]
    /\ ret = None
    /\ last = NoLast
    /\ prev = self
    /\ expr = NoExpr

(* One iteration of the loop whose Value::join (if any) succeeds *)
JoinLoopStep ==
    /\ pc = "loop"
    /\ \E k \in todo :
         LET r == JoinVisit(self.variables, k, other.variables[k])
         IN  /\ IsOk(r)
             /\ self' = [self EXCEPT !.variables = Unwrap(r)]
             /\ todo' = todo \ {k}
    /\ UNCHANGED <<other, self0, pc, result, memJoined, call, ret, last, prev, expr>>

(* One iteration whose Value::join fails: `?` returns the error *)
JoinLoopFail ==
    /\ pc = "loop"
    /\ \E k \in todo :
         /\ ~IsOk(JoinVisit(self.variables, k, other.variables[k]))
         /\ todo' = todo \ {k}
    /\ result' = Err
    /\ pc' = "done"
    /\ UNCHANGED <<self, other, self0, memJoined, call, ret, last, prev, expr>>

(* The loop is over: join the memories and return *)
JoinMemoryStep ==
    /\ pc = "loop"
    /\ todo = {}
    /\ memJoined' = TRUE
    /\ result' = JoinMemory(self, other)
    /\ self' = IF IsOk(result') THEN Unwrap(result') ELSE self
    /\ pc' = "done"
    /\ UNCHANGED <<other, self0, todo, call, ret, last, prev, expr>>

NextJoin == JoinLoopStep \/ JoinLoopFail \/ JoinMemoryStep

SpecJoin == InitJoin /\ [][NextJoin]_vars

----------------------------------------------------------------------------
(* State::new, State::variable, State::set_variable, State::remove_variable *)

InitStore ==
    /\ \E memory \in Memories : self = StateNew(memory)
    /\ other = self
    /\ self0 = self
    /\ todo = {}
    /\ pc = "store"
    /\ result = None
    /\ memJoined = FALSE
    /\ call = [op |-> "new"]
    /\ ret = None
    /\ last = NoLast
    /\ prev = self
    /\ expr = NoExpr

CallVariable ==
    /\ pc = "store"
    /\ \E key \in Keys :
         /\ call' = [op |-> "variable", key |-> key]
         /\ ret' = variable(self, key)
    /\ prev' = self
    /\ UNCHANGED <<self, other, self0, todo, pc, result, memJoined, last, expr>>

CallSetVariable ==
    /\ pc = "store"
    /\ \E key \in Keys, value \in Values :
         /\ call' = [op |-> "set_variable", key |-> key, value |-> value]
         /\ self' = set_variable(self, key, value)
         /\ last' = [last EXCEPT ![key] = Some(value)]
    /\ ret' = "()"
    /\ prev' = self
    /\ UNCHANGED <<other, self0, todo, pc, result, memJoined, expr>>

CallRemoveVariable ==
    /\ pc = "store"
    /\ \E key \in Keys :
         /\ call' = [op |-> "remove_variable", key |-> key]
         /\ self' = remove_variable(self, key)
         /\ last' = [last EXCEPT ![key] = None]
    /\ ret' = remove_variable_ret
    /\ prev' = self
    /\ UNCHANGED <<other, self0, todo, pc, result, memJoined, expr>>

NextStore == CallVariable \/ CallSetVariable \/ CallRemoveVariable

SpecStore == InitStore /\ [][NextStore]_vars

----------------------------------------------------------------------------
(* Expression<V> and its constructors.  A node is a tuple headed by its    *)
(* variant; Box::new(e) is e.                                              *)

\* the two boxed children are exchanged
expression_binop_Swapped(p, lhs, rhs) == <<p, rhs, lhs>>

(* macro expression_binop!($p, $n): fn $n(lhs, rhs) { $p(Box::new(lhs), Box::new(rhs)) } *)
expression_binop(p, lhs, rhs) == <<p, lhs, rhs>>

(* macro expression_extop!($p, $n): fn $n(bits, rhs) { $p(bits, Box::new(rhs)) } *)
expression_extop(p, bits, rhs) == <<p, bits, rhs>>

value(v) == <<"Value", v>>
add(lhs, rhs) == expression_binop("Add", lhs, rhs)
sub(lhs, rhs) == expression_binop("Sub", lhs, rhs)
mul(lhs, rhs) == expression_binop("Mul", lhs, rhs)
divu(lhs, rhs) == expression_binop("Divu", lhs, rhs)
modu(lhs, rhs) == expression_binop("Modu", lhs, rhs)
divs(lhs, rhs) == expression_binop("Divs", lhs, rhs)
mods(lhs, rhs) == expression_binop("Mods", lhs, rhs)
and(lhs, rhs) == expression_binop("And", lhs, rhs)
or(lhs, rhs) == expression_binop("Or", lhs, rhs)
xor(lhs, rhs) == expression_binop("Xor", lhs, rhs)
shl(lhs, rhs) == expression_binop("Shl", lhs, rhs)
shr(lhs, rhs) == expression_binop("Shr", lhs, rhs)
cmpeq(lhs, rhs) == expression_binop("Cmpeq", lhs, rhs)
cmpneq(lhs, rhs) == expression_binop("Cmpneq", lhs, rhs)
cmpltu(lhs, rhs) == expression_binop("Cmpltu", lhs, rhs)
cmplts(lhs, rhs) == expression_binop("Cmplts", lhs, rhs)
zext(bits, rhs) == expression_extop("Zext", bits, rhs)
sext(bits, rhs) == expression_extop("Sext", bits, rhs)
trun(bits, rhs) == expression_extop("Trun", bits, rhs)

BinopNames == {"add", "sub", "mul", "divu", "modu", "divs", "mods", "and", "or",
               "xor", "shl", "shr", "cmpeq", "cmpneq", "cmpltu", "cmplts"}
ExtopNames == {"zext", "sext", "trun"}

(* The call Expression::<n>(lhs, rhs) *)
BinopCall(n, lhs, rhs) ==
    CASE n = "add" -> add(lhs, rhs)
      [] n = "sub" -> sub(lhs, rhs)
      [] n = "mul" -> mul(lhs, rhs)
      [] n = "divu" -> divu(lhs, rhs)
      [] n = "modu" -> modu(lhs, rhs)
      [] n = "divs" -> divs(lhs, rhs)
      [] n = "mods" -> mods(lhs, rhs)
      [] n = "and" -> and(lhs, rhs)
      [] n = "or" -> or(lhs, rhs)
      [] n = "xor" -> xor(lhs, rhs)
      [] n = "shl" -> shl(lhs, rhs)
      [] n = "shr" -> shr(lhs, rhs)
      [] n = "cmpeq" -> cmpeq(lhs, rhs)
      [] n = "cmpneq" -> cmpneq(lhs, rhs)
      [] n = "cmpltu" -> cmpltu(lhs, rhs)
      [] n = "cmplts" -> cmplts(lhs, rhs)

(* The call Expression::<n>(bits, rhs) *)
ExtopCall(n, bits, rhs) ==
    CASE n = "zext" -> zext(bits, rhs)
      [] n = "sext" -> sext(bits, rhs)
      [] n = "trun" -> trun(bits, rhs)

(* Height of an Expression tree (a leaf has height 0) *)
RECURSIVE ExprDepth(_)
ExprDepth(e) ==
    IF e[1] = "Value" THEN 0
    ELSE IF e[1] \in {"Zext", "Sext", "Trun"} THEN 1 + ExprDepth(e[3])
    ELSE LET a == ExprDepth(e[2])
             b == ExprDepth(e[3])
         IN  1 + (IF a >= b THEN a ELSE b)

(* The leaf values the constructor calls are given *)
LeafValues == {v \in Values : v.bits = 8 /\ Cardinality(v.set) <= 1 /\ 1 \notin v.set}
                \cup {ValueEmpty(16)}

InitExpr ==
    /\ self = StateNew(MemoryNew("Big"))
    /\ other = self
    /\ self0 = self
    /\ todo = {}
    /\ pc = "expr"
    /\ result = None
    /\ memJoined = FALSE
    /\ \E v \in LeafValues :
         /\ call = [op |-> "value", value |-> v]
         /\ expr = value(v)
    /\ ret = None
    /\ last = NoLast
    /\ prev = self

(* The subtrees a call may be handed: the expression built so far or a leaf *)
Operands == {expr} \cup {value(v) : v \in LeafValues}

CallValue ==
    /\ pc = "expr"
    /\ \E v \in LeafValues :
         /\ call' = [op |-> "value", value |-> v]
         /\ expr' = value(v)
    /\ UNCHANGED <<self, other, self0, todo, pc, result, memJoined, ret, last, prev>>

CallBinop ==
    /\ pc = "expr"
    /\ ExprDepth(expr) < MaxDepth
    /\ \E n \in BinopNames, lhs \in Operands, rhs \in Operands :
         /\ expr \in {lhs, rhs}
         /\ call' = [op |-> n, lhs |-> lhs, rhs |-> rhs]
         /\ expr' = BinopCall(n, lhs, rhs)
    /\ UNCHANGED <<self, other, self0, todo, pc, result, memJoined, ret, last, prev>>

CallExtop ==
    /\ pc = "expr"
    /\ ExprDepth(expr) < MaxDepth
    /\ \E n \in ExtopNames, bits \in Widths :
         /\ call' = [op |-> n, bits |-> bits, rhs |-> expr]
         /\ expr' = ExtopCall(n, bits, expr)
    /\ UNCHANGED <<self, other, self0, todo, pc, result, memJoined, ret, last, prev>>

NextExpr == CallValue \/ CallBinop \/ CallExtop

SpecExpr == InitExpr /\ [][NextExpr]_vars

----------------------------------------------------------------------------
(* Properties of State::join (checked under SpecJoin) *)

Joined == pc = "done" /\ IsOk(result)
KeysOf(s) == DOMAIN s.variables
SharedKeys == KeysOf(self0) \cap KeysOf(other)
SharedJoinFails ==
    \E k \in SharedKeys : ~IsOk(ValueJoin(self0.variables[k], other.variables[k]))
MemoryJoinFails == ~IsOk(MemoryJoin(self0.memory, other.memory))

\* C1: whenever s1.join(&s2) succeeds, a key present in exactly one of s1 and
\* s2 maps in the result to exactly the value it had in the state holding it.
C1_OneSidedKeyKept ==
    Joined =>
        \A k \in Keys :
            /\ (k \in KeysOf(self0) \ KeysOf(other)) =>
                   variable(Unwrap(result), k) = Some(self0.variables[k])
            /\ (k \in KeysOf(other) \ KeysOf(self0)) =>
                   variable(Unwrap(result), k) = Some(other.variables[k])

C1_Witness ==
    /\ Joined
    /\ \E k \in KeysOf(self0) \ KeysOf(other) : self0.variables[k].set # {}
    /\ \E k \in KeysOf(other) \ KeysOf(self0) : other.variables[k].set # {}

\* C2: whenever s1.join(&s2) succeeds, the result's key set is the union of
\* both key sets, every shared key maps to Value::join(s1's value, s2's value)
\* and the memory is Memory::join(s1.memory, &s2.memory).
C2_FoldsOtherIntoSelf ==
    Joined =>
        /\ KeysOf(Unwrap(result)) = KeysOf(self0) \cup KeysOf(other)
        /\ \A k \in SharedKeys :
               Ok(Unwrap(result).variables[k]) =
                   ValueJoin(self0.variables[k], other.variables[k])
        /\ Ok(Unwrap(result).memory) = MemoryJoin(self0.memory, other.memory)

C2_Witness ==
    /\ Joined
    /\ \E k \in SharedKeys :
           /\ Unwrap(result).variables[k] # self0.variables[k]
           /\ Unwrap(result).variables[k] # other.variables[k]
    /\ KeysOf(self0) # KeysOf(other)
    /\ Unwrap(result).memory # self0.memory

(* a <= b in the value lattice: join(a, b) == b *)
Leq(a, b) == ValueJoin(a, b) = Ok(b)

(* r is an upper bound of x, both Options, None standing for bottom *)
UpperBound(x, r) ==
    IF x = None THEN (r # None => Leq(ValueEmpty(r[1].bits), r[1]))
    ELSE r # None /\ Leq(x[1], r[1])

\* C3: whenever s1.join(&s2) succeeds, for every variable k the result's value
\* of k is an upper bound (a <= b iff join(a, b) == b) of k's value in s1 and
\* of k's value in s2, an absent variable counting as bottom.
C3_JoinIsUpperBound ==
    Joined =>
        \A k \in Keys :
            /\ UpperBound(variable(self0, k), variable(Unwrap(result), k))
            /\ UpperBound(variable(other, k), variable(Unwrap(result), k))

C3_Witness ==
    /\ Joined
    /\ KeysOf(self0) \ KeysOf(other) # {}
    /\ \E k \in SharedKeys :
           /\ ~Leq(self0.variables[k], other.variables[k])
           /\ ~Leq(other.variables[k], self0.variables[k])

\* C4 (as stated): there are states s1, s2 with different key sets for which
\* s1.join(&s2) and s2.join(&s1) both succeed and are not equal.  The pair
\* ranges over every state of the model, the receiver and the argument of
\* the call in progress among them.
C4_AsymmetricPairExists ==
    \E s1 \in States \cup {self0}, s2 \in States \cup {other} :
        /\ KeysOf(s1) # KeysOf(s2)
        /\ IsOk(StateJoin(s1, s2))
        /\ IsOk(StateJoin(s2, s1))
        /\ StateJoin(s1, s2) # StateJoin(s2, s1)

\* C4 (amended): whenever s1.join(&s2) and s2.join(&s1) both succeed they are
\* equal states, also when the key sets of s1 and s2 differ.
C4_JoinIsSymmetric ==
    (Joined /\ IsOk(StateJoin(other, self0))) => result = StateJoin(other, self0)

C4_Witness ==
    /\ Joined
    /\ KeysOf(self0) \ KeysOf(other) # {}
    /\ KeysOf(other) # {}
    /\ self0.memory # other.memory
    /\ result = StateJoin(other, self0)

\* C5: s1.join(&s2) returns an error exactly when Value::join fails for some
\* shared variable or Memory::join fails, a successful return has gone through
\* Memory::join, and Memory::join is never invoked once a variable join failed.
C5_ErrorsPropagate ==
    /\ pc = "done" => ((result = Err) <=> (SharedJoinFails \/ MemoryJoinFails))
    /\ Joined => memJoined
    /\ memJoined => (~SharedJoinFails /\ todo = {})

C5_Witness ==
    /\ pc = "done"
    /\ result = Err
    /\ SharedJoinFails
    /\ ~MemoryJoinFails
    /\ ~memJoined
    /\ todo # {}

\* C9: s1.join(&s2) never changes s2, and its outcome (failure, or the state
\* returned) is the one every iteration order of other's variables produces.
C9_OrderIndependent ==
    /\ [](pc = "done" =>
            \A ord \in Orders(KeysOf(other)) : result = StateJoinIn(self0, other, ord))
    /\ [][other' = other]_vars

C9_Witness ==
    /\ Joined
    /\ Cardinality(KeysOf(other)) = NumKeys
    /\ SharedKeys # {}
    /\ KeysOf(other) \ KeysOf(self0) # {}

\* C10: for every state s, s.clone().join(&s) succeeds and equals s.
C10_JoinIdempotent ==
    (pc = "done" /\ self0 = other) => result = Ok(other)

C10_Witness ==
    /\ pc = "done"
    /\ self0 = other
    /\ Cardinality(KeysOf(other)) = NumKeys
    /\ other.memory.cells # {}

----------------------------------------------------------------------------
(* Properties of the variable store (checked under SpecStore) *)

\* C6: State::new(memory) has no variables and holds memory; afterwards
\* variable(k) is Some(v) exactly when the most recent call touching k was
\* set_variable(k, v) and None otherwise; a call changes at most its own key,
\* removing an absent key changes nothing, and the memory never changes.
C6_VariableStore ==
    /\ call.op = "new" => (KeysOf(self) = {} /\ self = StateNew(self.memory))
    /\ self.memory = self0.memory
    /\ \A k \in Keys : variable(self, k) = last[k]
    /\ call.op = "variable" => (ret = last[call.key] /\ self = prev)
    /\ call.op \in {"set_variable", "remove_variable"} =>
           \A k \in Keys \ {call.key} : variable(self, k) = variable(prev, k)
    /\ (call.op = "remove_variable" /\ call.key \notin KeysOf(prev)) => self = prev

C6_Witness ==
    /\ call.op = "set_variable"
    /\ call.key \in KeysOf(prev)
    /\ prev.variables[call.key] # call.value
    /\ \E k \in Keys \ {call.key} : last[k] = None

\* C7: remove_variable(key) removes the variable and returns true if it was
\* present before the call, and false if it was not.
C7_RemoveReturnsPresence ==
    call.op = "remove_variable" =>
        /\ call.key \notin KeysOf(self)
        /\ ret = (IF call.key \in KeysOf(prev) THEN "true" ELSE "false")

----------------------------------------------------------------------------
(* Properties of the Expression constructors (checked under SpecExpr) *)

VariantOf ==
    [n \in BinopNames \cup ExtopNames |->
        CASE n = "add" -> "Add"       [] n = "sub" -> "Sub"
          [] n = "mul" -> "Mul"       [] n = "divu" -> "Divu"
          [] n = "modu" -> "Modu"     [] n = "divs" -> "Divs"
          [] n = "mods" -> "Mods"     [] n = "and" -> "And"
          [] n = "or" -> "Or"         [] n = "xor" -> "Xor"
          [] n = "shl" -> "Shl"       [] n = "shr" -> "Shr"
          [] n = "cmpeq" -> "Cmpeq"   [] n = "cmpneq" -> "Cmpneq"
          [] n = "cmpltu" -> "Cmpltu" [] n = "cmplts" -> "Cmplts"
          [] n = "zext" -> "Zext"     [] n = "sext" -> "Sext"
          [] n = "trun" -> "Trun"]

\* C8: each binary constructor called with (lhs, rhs) yields the same-named
\* variant with lhs as first and rhs as second child; zext, sext, trun called
\* with (bits, rhs) yield the same-named variant holding bits and rhs;
\* value(v) yields the leaf Value(v).
C8_ConstructorsBuildNamedNode ==
    /\ call.op = "value" => expr = <<"Value", call.value>>
    /\ call.op \in BinopNames => expr = <<VariantOf[call.op], call.lhs, call.rhs>>
    /\ call.op \in ExtopNames => expr = <<VariantOf[call.op], call.bits, call.rhs>>

C8_Witness ==
    /\ call.op = "sub"
    /\ call.lhs # call.rhs
    /\ ExprDepth(expr) = MaxDepth
    /\ call.lhs[1] = "Trun"

====
